---- MODULE Spec2Model ----
(***************************************************************************)
(* path_navigator: VertexBuffer construction (vertex.rs), nearest-node     *)
(* lookup and the Dijkstra search with path reconstruction (dijkstra.rs).  *)
(*                                                                         *)
(* Conventions of the model                                                *)
(*  - Vec positions are 1-based here (Rust index i is position i+1); the   *)
(*    order of positions is the order of Rust indices.                     *)
(*  - f64 values are integers.  Coordinates are whole degrees.  A radius   *)
(*    is in units of 0.1 km, so that the table of data.rs is integral.     *)
(*  - SphereConnection::cost is the haversine distance radius * c.  The    *)
(*    model's points lie on the equator or are the north pole (90, 0); on  *)
(*    that domain the central angle c is |d lng| (<= 180) between two      *)
(*    equator points and |d lat| otherwise, and the model keeps c in       *)
(*    degrees instead of radians (one common factor pi/180 on all costs).  *)
(***************************************************************************)
EXTENDS Integers, Sequences, FiniteSets, TLC

\* ---------------------------------------------------------------- bounds
\* longest connection list handed to VertexBuffer::new
MaxConns == 3

\* ---------------------------------------------------------------- constants
\* std::f64::MAX and std::f64::INFINITY: above every finite path cost
MAX == 2147483646
INFINITY == 2147483647

\* ---------------------------------------------------------------- data.rs
CelestialObject ==
    {"MERCURY", "VENUS", "EARTH", "MARS", "JUPITER", "SATURN", "URANUS", "NEPTUNE"}

get_radius_km(celestial_object) ==
    CASE celestial_object = "MERCURY" -> 24397
      [] celestial_object = "VENUS"   -> 60518
      [] celestial_object = "EARTH"   -> 63710
      [] celestial_object = "MARS"    -> 33895
      [] celestial_object = "JUPITER" -> 699110
      [] celestial_object = "SATURN"  -> 582320
      [] celestial_object = "URANUS"  -> 253620
      [] celestial_object = "NEPTUNE" -> 246220

\* ---------------------------------------------------------------- components.rs
SpherePoint_new(lat, lng) == [lat |-> lat, lng |-> lng]

\* SpherePoint_eq comparing the latitudes only
SpherePoint_eq_LatOnly(a, b) == a.lat = b.lat

\* impl PartialEq for SpherePoint
SpherePoint_eq(a, b) == a.lat = b.lat /\ a.lng = b.lng

SphereConnection_new(start, finish) == [start |-> start, finish |-> finish]

Abs(x) == IF x < 0 THEN -x ELSE x

\* the central angle of the haversine formula, in degrees
CentralAngle(p, q) ==
    IF p.lat = 0 /\ q.lat = 0
    THEN LET d == Abs(q.lng - p.lng) IN IF d > 180 THEN 360 - d ELSE d
    ELSE Abs(q.lat - p.lat)

\* SphereConnection::cost
cost(connection, radius) == radius * CentralAngle(connection.start, connection.finish)

\* ---------------------------------------------------------------- inputs
\* three points of the equator and the north pole
Points ==
    {SpherePoint_new(0, 0), SpherePoint_new(0, 30), SpherePoint_new(0, 60),
     SpherePoint_new(90, 0)}

Connections == {SphereConnection_new(a, b) : a \in Points, b \in Points}

ConnectionLists == UNION {[1..n -> Connections] : n \in 0..MaxConns}

Bodies == {"EARTH"}

\* ---------------------------------------------------------------- vertex.rs
GraphRelation_new(vertex_index, c) == [vertex_index |-> vertex_index, cost |-> c]

VertexSpherePoint_new(coordinates) == [coordinates |-> coordinates, graphs |-> <<>>]

has_point(v, other) == SpherePoint_eq(v.coordinates, other)

\* Iterator::position over a Vec: the first position whose element satisfies
\* the test, 0 standing for Option::None
PositionOfPoint(vec, point) ==
    LET hits == {i \in 1..Len(vec) : has_point(vec[i], point)}
    IN IF hits = {} THEN 0 ELSE CHOOSE i \in hits : \A j \in hits : i <= j

PositionOfRelation(graphs, index_related) ==
    LET hits == {i \in 1..Len(graphs) : graphs[i].vertex_index = index_related}
    IN IF hits = {} THEN 0 ELSE CHOOSE i \in hits : \A j \in hits : i <= j

\* is_connections_vec_correct returning from the loop after the first connection
is_connections_vec_correct_FirstOnly(conns) ==
    /\ Len(conns) # 0
    /\ ~SpherePoint_eq(conns[1].start, conns[1].finish)

is_connections_vec_correct(conns) ==
    /\ Len(conns) # 0
    /\ \A i \in 1..Len(conns) : ~SpherePoint_eq(conns[i].start, conns[i].finish)

\* add with the new node put in front of the vector, not pushed at its end
add_Front(vec, coordinates) == <<VertexSpherePoint_new(coordinates)>> \o vec

\* VertexBuffer::add: the vector after the push (the returned index is its length)
add(vec, coordinates) == Append(vec, VertexSpherePoint_new(coordinates))

\* update without the search for an entry: the relation is always pushed
update_Always(vec, index_to_update, index_related, c) ==
    [vec EXCEPT ![index_to_update].graphs = Append(@, GraphRelation_new(index_related, c))]

\* VertexBuffer::update
update(vec, index_to_update, index_related, c) ==
    IF PositionOfRelation(vec[index_to_update].graphs, index_related) = 0
    THEN [vec EXCEPT ![index_to_update].graphs = Append(@, GraphRelation_new(index_related, c))]
    ELSE vec

\* append without its second update (line 122)
append_OneWay(vec, connection, celestial_object) ==
    LET start_index_option == PositionOfPoint(vec, connection.start)
        end_index_option   == PositionOfPoint(vec, connection.finish)
        vec1 == IF start_index_option = 0 THEN add(vec, connection.start) ELSE vec
        start_vertex_index == IF start_index_option = 0 THEN Len(vec1) ELSE start_index_option
        vec2 == IF end_index_option = 0 THEN add(vec1, connection.finish) ELSE vec1
        end_vertex_index == IF end_index_option = 0 THEN Len(vec2) ELSE end_index_option
        c == cost(connection, get_radius_km(celestial_object))
    IN update(vec2, start_vertex_index, end_vertex_index, c)

\* VertexBuffer::append
append(vec, connection, celestial_object) ==
    LET start_index_option == PositionOfPoint(vec, connection.start)
        end_index_option   == PositionOfPoint(vec, connection.finish)
        vec1 == IF start_index_option = 0 THEN add(vec, connection.start) ELSE vec
        start_vertex_index == IF start_index_option = 0 THEN Len(vec1) ELSE start_index_option
        vec2 == IF end_index_option = 0 THEN add(vec1, connection.finish) ELSE vec1
        end_vertex_index == IF end_index_option = 0 THEN Len(vec2) ELSE end_index_option
        radius == get_radius_km(celestial_object)
        c == cost(connection, radius)
        vec3 == update(vec2, start_vertex_index, end_vertex_index, c)
    IN update(vec3, end_vertex_index, start_vertex_index, c)

\* ---------------------------------------------------------------- dijkstra.rs
\* the scan of get_closest_point with <= for <: a later node at the same
\* distance replaces an earlier one
RECURSIVE ClosestScan_Le(_, _, _, _, _, _)
ClosestScan_Le(point, vec, radius, i, index, distance) ==
    IF i > Len(vec) THEN index
    ELSE LET local_distance == cost(SphereConnection_new(point, vec[i].coordinates), radius)
         IN IF local_distance <= distance
            THEN ClosestScan_Le(point, vec, radius, i + 1, i, local_distance)
            ELSE ClosestScan_Le(point, vec, radius, i + 1, index, distance)

get_closest_point_LastTie(point, vec, celestial_object) ==
    ClosestScan_Le(point, vec, get_radius_km(celestial_object), 1, 1, INFINITY)

\* the closure of get_closest_point applied to positions i..Len(vec)
RECURSIVE ClosestScan(_, _, _, _, _, _)
ClosestScan(point, vec, radius, i, index, distance) ==
    IF i > Len(vec) THEN index
    ELSE LET connection == SphereConnection_new(point, vec[i].coordinates)
             local_distance == cost(connection, radius)
         IN IF local_distance < distance
            THEN ClosestScan(point, vec, radius, i + 1, i, local_distance)
            ELSE ClosestScan(point, vec, radius, i + 1, index, distance)

\* get_closest_point: `index` starts at the first node, `distance` at INFINITY
get_closest_point(point, vec, celestial_object) ==
    ClosestScan(point, vec, get_radius_km(celestial_object), 1, 1, INFINITY)

\* HashMap::insert on a map kept as a function
MapInsert(map, k, v) == [x \in (DOMAIN map) \cup {k} |-> IF x = k THEN v ELSE map[x]]

EmptyMap == [x \in {} |-> 0]

InSeq(seq, x) == \E i \in 1..Len(seq) : seq[i] = x

\* Dijkstra::new without the two inserts for the finish node (lines 23 and 25)
Dijkstra_new_StartOnly(start_index, finish_index) ==
    [costs     |-> MapInsert(EmptyMap, start_index, 0),
     parents   |-> EmptyMap,
     processed |-> <<start_index>>,
     cheapest_vertex_index |-> start_index]

\* Dijkstra::new (parents: 0 stands for Option::None)
Dijkstra_new(start_index, finish_index) ==
    [costs     |-> MapInsert(MapInsert(EmptyMap, start_index, 0), finish_index, MAX),
     parents   |-> MapInsert(EmptyMap, finish_index, 0),
     processed |-> <<start_index>>,
     cheapest_vertex_index |-> start_index]

\* RelaxOne without the comparison of line 70: a known cost is always overwritten
RelaxOne_NoCompare(vec, d, graph_index) ==
    LET rel == vec[d.cheapest_vertex_index].graphs[graph_index]
        vertex_index == rel.vertex_index
        child_cost  == d.costs[d.cheapest_vertex_index] + rel.cost
    IN IF InSeq(d.processed, vertex_index) THEN d
       ELSE [d EXCEPT !.costs = MapInsert(@, vertex_index, child_cost),
                      !.parents = MapInsert(@, vertex_index, d.cheapest_vertex_index)]

\* RelaxOne without line 72: a lower cost replaces the known cost, the
\* predecessor recorded before stays
RelaxOne_KeepParent(vec, d, graph_index) ==
    LET rel == vec[d.cheapest_vertex_index].graphs[graph_index]
        vertex_index == rel.vertex_index
        child_cost  == d.costs[d.cheapest_vertex_index] + rel.cost
    IN IF InSeq(d.processed, vertex_index) THEN d
       ELSE IF vertex_index \in DOMAIN d.costs
            THEN IF d.costs[vertex_index] > child_cost
                 THEN [d EXCEPT !.costs[vertex_index] = child_cost]
                 ELSE d
            ELSE [d EXCEPT !.costs = MapInsert(@, vertex_index, child_cost),
                           !.parents = MapInsert(@, vertex_index, d.cheapest_vertex_index)]

\* RelaxOne without the test of line 65 and without the comparison of line 70:
\* every neighbour, settled or not, gets the candidate cost and the relaxed
\* node as predecessor
RelaxOne_Overwrite(vec, d, graph_index) ==
    LET rel == vec[d.cheapest_vertex_index].graphs[graph_index]
        vertex_index == rel.vertex_index
        child_cost  == d.costs[d.cheapest_vertex_index] + rel.cost
    IN [d EXCEPT !.costs = MapInsert(@, vertex_index, child_cost),
                 !.parents = MapInsert(@, vertex_index, d.cheapest_vertex_index)]

\* one pass of the body of `for graph_index in 0..iteration_max`
RelaxOne(vec, d, graph_index) ==
    LET rel == vec[d.cheapest_vertex_index].graphs[graph_index]
        vertex_index == rel.vertex_index
        parent_cost == d.costs[d.cheapest_vertex_index]
        child_cost  == parent_cost + rel.cost
    IN IF InSeq(d.processed, vertex_index) THEN d
       ELSE IF vertex_index \in DOMAIN d.costs
            THEN IF d.costs[vertex_index] > child_cost
                 THEN [d EXCEPT !.costs[vertex_index] = child_cost,
                                !.parents[vertex_index] = d.cheapest_vertex_index]
                 ELSE d
            ELSE [d EXCEPT !.costs = MapInsert(@, vertex_index, child_cost),
                           !.parents = MapInsert(@, vertex_index, d.cheapest_vertex_index)]

\* the for loop of search_for_shortest_path_in_vertex from graph_index on
RECURSIVE RelaxFrom(_, _, _)
RelaxFrom(vec, d, graph_index) ==
    IF graph_index > Len(vec[d.cheapest_vertex_index].graphs) THEN d
    ELSE RelaxFrom(vec, RelaxOne(vec, d, graph_index), graph_index + 1)

\* the scan of lines 80-89 without the update of min_cost: the last
\* unprocessed key below MAX, in the HashMap's iteration order, is kept
MinValueIndexes_NoMin(costs, processed) ==
    {k \in DOMAIN costs : ~InSeq(processed, k) /\ MAX > costs[k]}

\* the values min_value_index can end with: the scan keeps the first key, in
\* the HashMap's iteration order, among the unprocessed keys of least cost
\* below MAX; the iteration order is arbitrary.  The empty set is None.
MinValueIndexes(costs, processed) ==
    LET open == {k \in DOMAIN costs : ~InSeq(processed, k)}
    IN {k \in open : MAX > costs[k] /\ \A j \in open : costs[k] <= costs[j]}

\* find_shortest_path, line 113
IsDegenerateQuery(s, f, vec) == SpherePoint_eq(s, f) \/ Len(vec) = 0

\* find_shortest_path without the test of line 118
IsSameNode_Never(si, fi) == FALSE

\* find_shortest_path, line 118
IsSameNode(si, fi) == si = fi

\* the locals of calculate_path with current_end_point taken from the first
\* node of the vector, not from the finish node
WalkInit_EndAtFirst(vec, fi) ==
    [result |-> <<>>,
     actual_index_from_parent |-> fi,
     current_end_point |-> vec[1].coordinates]

\* calculate_path, lines 38-44: the locals before the while loop
WalkInit(vec, fi) ==
    [result |-> <<>>,
     actual_index_from_parent |-> fi,
     current_end_point |-> vec[fi].coordinates]

\* calculate_path without result.reverse()
Reverse_Missing(seq) == seq

\* Vec::reverse
RECURSIVE Reverse(_)
Reverse(seq) == IF seq = <<>> THEN <<>> ELSE Append(Reverse(Tail(seq)), Head(seq))

\* ---------------------------------------------------------------- state
VARIABLES
    connections,        \* the argument of VertexBuffer::new
    celestial_object,   \* VertexBuffer.celestial_object
    vector,             \* VertexBuffer.vector
    conn_pos,           \* the position of connections.iter() in VertexBuffer::new
    built,              \* the result of VertexBuffer::new
    pc,                 \* where the program is
    start, finish,      \* the arguments of find_shortest_path
    dijkstra,           \* the Dijkstra struct of the running query
    finish_index,       \* Dijkstra.finish_index
    start_index,        \* Dijkstra.start_index
    walk,               \* the locals of calculate_path
    ret,                \* the value find_shortest_path returned
    other               \* a second call of find_shortest_path on the same graph

vars == <<connections, celestial_object, vector, conn_pos, built, pc, start, finish,
          dijkstra, finish_index, start_index, walk, ret, other>>

graph_vars == <<connections, celestial_object, vector, conn_pos, built>>

query_vars == <<pc, start, finish, dijkstra, finish_index, start_index, walk, ret>>

NoPoint == SpherePoint_new(0, 0)
NoDijkstra == [costs |-> EmptyMap, parents |-> EmptyMap, processed |-> <<>>,
               cheapest_vertex_index |-> 0]
NoWalk == [result |-> <<>>, actual_index_from_parent |-> 0, current_end_point |-> NoPoint]
NoRet == [tag |-> "pending", path |-> <<>>]

\* a call of find_shortest_path that has not been made yet
IdleQuery ==
    [pc |-> "ready", start |-> NoPoint, finish |-> NoPoint, dijkstra |-> NoDijkstra,
     start_index |-> 0, finish_index |-> 0, walk |-> NoWalk, ret |-> NoRet]

Init ==
    /\ connections \in ConnectionLists
    /\ celestial_object \in Bodies
    /\ vector = <<>>
    /\ conn_pos = 1
    /\ built = "pending"
    /\ pc = "new"
    /\ start = NoPoint /\ finish = NoPoint
    /\ dijkstra = NoDijkstra
    /\ start_index = 0 /\ finish_index = 0
    /\ walk = NoWalk
    /\ ret = NoRet
    /\ other = IdleQuery

\* VertexBuffer::new up to the first append: the check of the whole list
VertexBuffer_new ==
    /\ pc = "new"
    /\ IF ~is_connections_vec_correct(connections)
       THEN /\ built' = "Err_DataItemIncorrect"
            /\ pc' = "err"
       ELSE /\ built' = "pending"
            /\ pc' = "append"
    /\ UNCHANGED <<connections, celestial_object, vector, conn_pos, start, finish,
                   dijkstra, finish_index, start_index, walk, ret, other>>

\* one step of connections.iter().for_each(append); after the last one Ok(..)
AppendStep ==
    /\ pc = "append"
    /\ conn_pos <= Len(connections)
    /\ vector' = append(vector, connections[conn_pos], celestial_object)
    /\ conn_pos' = conn_pos + 1
    /\ IF conn_pos = Len(connections)
       THEN built' = "Ok" /\ pc' = "ready"
       ELSE built' = built /\ pc' = "append"
    /\ UNCHANGED <<connections, celestial_object, start, finish,
                   dijkstra, finish_index, start_index, walk, ret, other>>

\* find_shortest_path up to the first test of the search loop (line 58)
find_shortest_path(s, f) ==
    /\ pc = "ready"
    /\ start' = s /\ finish' = f
    /\ IF IsDegenerateQuery(s, f, vector)
       THEN /\ ret' = [tag |-> "None", path |-> <<>>]
            /\ pc' = "done"
            /\ UNCHANGED <<dijkstra, start_index, finish_index, walk>>
       ELSE LET si == get_closest_point(s, vector, celestial_object)
                fi == get_closest_point(f, vector, celestial_object)
            IN /\ start_index' = si
               /\ finish_index' = fi
               /\ IF IsSameNode(si, fi)
                  THEN /\ ret' = [tag |-> "None", path |-> <<>>]
                       /\ pc' = "done"
                       /\ UNCHANGED <<dijkstra, walk>>
                  ELSE /\ dijkstra' = Dijkstra_new(si, fi)
                       /\ ret' = ret
                       /\ IF InSeq(dijkstra'.processed, fi)
                          THEN pc' = "walk" /\ walk' = WalkInit(vector, fi)
                          ELSE pc' = "relax" /\ walk' = walk
    /\ UNCHANGED <<graph_vars, other>>

\* search loop, lines 60-79: relax the neighbours of cheapest_vertex_index
Relax ==
    /\ pc = "relax"
    /\ dijkstra' = RelaxFrom(vector, dijkstra, 1)
    /\ pc' = "select"
    /\ UNCHANGED <<graph_vars, start, finish, start_index, finish_index, walk, ret, other>>

\* search loop, lines 80-93, and the loop test of line 58 that follows
Select ==
    /\ pc = "select"
    /\ LET found == MinValueIndexes(dijkstra.costs, dijkstra.processed)
       IN IF found = {}
          THEN dijkstra' = dijkstra
          ELSE \E x \in found :
                  dijkstra' = [dijkstra EXCEPT !.cheapest_vertex_index = x,
                                               !.processed = Append(@, x)]
    /\ IF InSeq(dijkstra'.processed, finish_index)
       THEN /\ pc' = "walk"
            /\ walk' = WalkInit(vector, finish_index)
       ELSE /\ pc' = "relax"
            /\ walk' = walk
    /\ UNCHANGED <<graph_vars, start, finish, start_index, finish_index, ret, other>>

\* calculate_path, lines 45-54: one pass of the while loop, or the return
Walk ==
    /\ pc = "walk"
    /\ IF walk.actual_index_from_parent # start_index
       THEN LET a == walk.actual_index_from_parent
            IN IF a \notin DOMAIN dijkstra.parents \/ dijkstra.parents[a] = 0
               THEN /\ pc' = "panic"
                    /\ UNCHANGED <<walk, ret>>
               ELSE LET parent == dijkstra.parents[a]
                        current_start_point == vector[parent].coordinates
                    IN /\ walk' = [result |-> Append(walk.result,
                                        SphereConnection_new(current_start_point,
                                                             walk.current_end_point)),
                                   actual_index_from_parent |-> parent,
                                   current_end_point |-> current_start_point]
                       /\ pc' = "walk"
                       /\ ret' = ret
       ELSE /\ ret' = [tag |-> "Some", path |-> Reverse(walk.result)]
            /\ pc' = "done"
            /\ walk' = walk
    /\ UNCHANGED <<graph_vars, start, finish, dijkstra, start_index, finish_index, other>>

\* the caller takes the result; the graph stays for the next query
Return ==
    /\ pc = "done"
    /\ pc' = "ready"
    /\ start' = NoPoint /\ finish' = NoPoint
    /\ dijkstra' = NoDijkstra
    /\ start_index' = 0 /\ finish_index' = 0
    /\ walk' = NoWalk
    /\ ret' = NoRet
    /\ UNCHANGED <<graph_vars, other>>

Next ==
    \/ VertexBuffer_new
    \/ AppendStep
    \/ \E s \in Points, f \in Points : find_shortest_path(s, f)
    \/ Relax
    \/ Select
    \/ Walk
    \/ Return

Spec == Init /\ [][Next]_vars

\* the search and the walk are a single thread that always takes its next step
FairSpec == Spec /\ WF_vars(Next)

\* ------------------------------------------------ two calls on one graph
\* find_shortest_path takes the graph by shared reference and keeps its Dijkstra
\* struct in a local, so a second call can run while the first is under way.
\* The second call is the record `other`; its steps are the same code, written
\* as functions of the record.

\* find_shortest_path up to the first test of the search loop (line 58)
QueryBegin(s, f, vec, body) ==
    IF IsDegenerateQuery(s, f, vec)
    THEN [IdleQuery EXCEPT !.pc = "done", !.start = s, !.finish = f,
                           !.ret = [tag |-> "None", path |-> <<>>]]
    ELSE LET si == get_closest_point(s, vec, body)
             fi == get_closest_point(f, vec, body)
         IN IF IsSameNode(si, fi)
            THEN [IdleQuery EXCEPT !.pc = "done", !.start = s, !.finish = f,
                                   !.start_index = si, !.finish_index = fi,
                                   !.ret = [tag |-> "None", path |-> <<>>]]
            ELSE LET d == Dijkstra_new(si, fi)
                     found == InSeq(d.processed, fi)
                 IN [pc |-> IF found THEN "walk" ELSE "relax",
                     start |-> s, finish |-> f, dijkstra |-> d,
                     start_index |-> si, finish_index |-> fi,
                     walk |-> IF found THEN WalkInit(vec, fi) ELSE NoWalk,
                     ret |-> NoRet]

\* the states a call can be in after its next step: the for loop of lines
\* 60-79, the scan and push of lines 80-93 with the loop test, one pass of the
\* while loop of calculate_path or its return, and the hand-over of the result
QuerySteps(q, vec) ==
    CASE q.pc = "relax" ->
            {[q EXCEPT !.dijkstra = RelaxFrom(vec, q.dijkstra, 1), !.pc = "select"]}
      [] q.pc = "select" ->
            LET found == MinValueIndexes(q.dijkstra.costs, q.dijkstra.processed)
                after == IF found = {} THEN {q.dijkstra}
                         ELSE {[q.dijkstra EXCEPT !.cheapest_vertex_index = x,
                                                  !.processed = Append(@, x)] : x \in found}
            IN {IF InSeq(d.processed, q.finish_index)
                THEN [q EXCEPT !.dijkstra = d, !.pc = "walk",
                               !.walk = WalkInit(vec, q.finish_index)]
                ELSE [q EXCEPT !.dijkstra = d, !.pc = "relax"] : d \in after}
      [] q.pc = "walk" ->
            IF q.walk.actual_index_from_parent # q.start_index
            THEN LET a == q.walk.actual_index_from_parent
                 IN IF a \notin DOMAIN q.dijkstra.parents \/ q.dijkstra.parents[a] = 0
                    THEN {[q EXCEPT !.pc = "panic"]}
                    ELSE LET parent == q.dijkstra.parents[a]
                             current_start_point == vec[parent].coordinates
                         IN {[q EXCEPT !.walk =
                                [result |-> Append(q.walk.result,
                                     SphereConnection_new(current_start_point,
                                                          q.walk.current_end_point)),
                                 actual_index_from_parent |-> parent,
                                 current_end_point |-> current_start_point]]}
            ELSE {[q EXCEPT !.ret = [tag |-> "Some", path |-> Reverse(q.walk.result)],
                            !.pc = "done"]}
      [] q.pc = "done" -> {IdleQuery}
      [] OTHER -> {}

\* the second call working on the first call's Dijkstra struct where both have
\* one, as if the struct were shared between the calls
OtherQuery_SharedDijkstra ==
    /\ built = "Ok"
    /\ \/ /\ other.pc = "ready"
          /\ \E s \in Points, f \in Points :
                other' = QueryBegin(s, f, vector, celestial_object)
       \/ \E q \in QuerySteps(IF dijkstra # NoDijkstra /\ other.dijkstra # NoDijkstra
                             THEN [other EXCEPT !.dijkstra = dijkstra]
                             ELSE other, vector) : other' = q
    /\ UNCHANGED <<graph_vars, query_vars>>

\* a step of the second call: it begins, or takes its next step
OtherQuery ==
    /\ built = "Ok"
    /\ \/ /\ other.pc = "ready"
          /\ \E s \in Points, f \in Points :
                other' = QueryBegin(s, f, vector, celestial_object)
       \/ \E q \in QuerySteps(other, vector) : other' = q
    /\ UNCHANGED <<graph_vars, query_vars>>

\* the connections between two different points, one direction each
EdgeSeq ==
    <<SphereConnection_new(SpherePoint_new(0, 30), SpherePoint_new(0, 0)),
      SphereConnection_new(SpherePoint_new(0, 30), SpherePoint_new(0, 60)),
      SphereConnection_new(SpherePoint_new(0, 0), SpherePoint_new(90, 0)),
      SphereConnection_new(SpherePoint_new(0, 60), SpherePoint_new(90, 0)),
      SphereConnection_new(SpherePoint_new(0, 0), SpherePoint_new(0, 60)),
      SphereConnection_new(SpherePoint_new(0, 30), SpherePoint_new(90, 0))>>

RECURSIVE EdgesFrom(_, _)
EdgesFrom(chosen, i) ==
    IF i > Len(EdgeSeq) THEN <<>>
    ELSE (IF i \in chosen THEN <<EdgeSeq[i]>> ELSE <<>>) \o EdgesFrom(chosen, i + 1)

\* connection lists without a repeated connection, of up to MaxConns + 1
\* connections: long enough for two routes of equal cost between two nodes
EdgeLists ==
    {EdgesFrom(chosen, 1) :
        chosen \in {c \in SUBSET (1..Len(EdgeSeq)) : Cardinality(c) <= MaxConns + 1}}

PairInit ==
    /\ connections \in EdgeLists
    /\ celestial_object \in Bodies
    /\ vector = <<>>
    /\ conn_pos = 1
    /\ built = "pending"
    /\ pc = "new"
    /\ start = NoPoint /\ finish = NoPoint
    /\ dijkstra = NoDijkstra
    /\ start_index = 0 /\ finish_index = 0
    /\ walk = NoWalk
    /\ ret = NoRet
    /\ other = IdleQuery

PairNext == Next \/ OtherQuery

PairSpec == PairInit /\ [][PairNext]_vars

\* ---------------------------------------------------------------- properties
\* what the claims speak of, defined apart from the code's own computation

\* the nodes at least distance from a point, and the lowest of them
NearestNodes(point, vec, body) ==
    LET dist == [i \in 1..Len(vec) |->
                    cost(SphereConnection_new(point, vec[i].coordinates), get_radius_km(body))]
    IN {i \in 1..Len(vec) : \A j \in 1..Len(vec) : dist[i] <= dist[j]}

Nearest(point, vec, body) ==
    LET nearest == NearestNodes(point, vec, body)
    IN CHOOSE i \in nearest : \A j \in nearest : i <= j

SetMin(S) == CHOOSE x \in S : \A y \in S : x <= y

\* least total cost over the paths from u to t that stay out of `visited`
\* (MAX where there is none); costs are not negative, so no path that comes
\* back to a node is cheaper than the simple paths tried here
RECURSIVE LeastCostFrom(_, _, _, _)
LeastCostFrom(vec, u, t, visited) ==
    IF u = t THEN 0
    ELSE SetMin({MAX} \cup
            {LET rel == vec[u].graphs[g]
                 rest == LeastCostFrom(vec, rel.vertex_index, t,
                                       visited \cup {rel.vertex_index})
             IN IF rest = MAX THEN MAX ELSE rel.cost + rest :
             g \in {h \in DOMAIN vec[u].graphs :
                        vec[u].graphs[h].vertex_index \notin visited}})

LeastCost(vec, s, t) == LeastCostFrom(vec, s, t, {s})

RECURSIVE PathCost(_, _)
PathCost(path, radius) ==
    IF path = <<>> THEN 0 ELSE cost(Head(path), radius) + PathCost(Tail(path), radius)

Returned == pc = "done"
ReturnedSome == pc = "done" /\ ret.tag = "Some"

\* C1: whenever find_shortest_path returns Some(path), the sum of the costs of
\* the segments of path is the least total cost over all paths of the graph
\* from the node nearest to start to the node nearest to finish, whichever
\* equal-cost unsettled node the search picked on the way.
C1_PathCostIsMinimal ==
    ReturnedSome =>
        PathCost(ret.path, get_radius_km(celestial_object))
            = LeastCost(vector, Nearest(start, vector, celestial_object),
                                Nearest(finish, vector, celestial_object))

\* a path of several segments, found after a tie between two settled nodes
C1_Witness ==
    /\ ReturnedSome
    /\ Len(ret.path) >= 2
    /\ \E i, j \in DOMAIN dijkstra.costs :
          /\ i # j /\ InSeq(dijkstra.processed, i) /\ InSeq(dijkstra.processed, j)
          /\ dijkstra.costs[i] = dijkstra.costs[j]

InSearchLoop == pc \in {"relax", "select"}

\* C2: the search loop always terminates: once entered it is left, the finish
\* node settled or no unsettled node with a recorded cost left to select.
C2_SearchLoopTerminates == InSearchLoop ~> ~InSearchLoop

\* C3: find_shortest_path never fails: no call reaches a fatal failure, and
\* every call that started the solver completes with a value.
C3_AlwaysCompletes ==
    /\ [](pc # "panic")
    /\ [](pc \in {"relax", "select", "walk"} => <>Returned)

QueryActive == pc \in {"relax", "select", "walk", "done", "panic"}

\* the three cases in which there is nothing to route from s to f
DegenerateQuery(s, f) ==
    \/ s = f
    \/ Len(vector) = 0
    \/ Nearest(s, vector, celestial_object) = Nearest(f, vector, celestial_object)

\* C4: find_shortest_path returns None when the two query points are equal,
\* when the graph has no node, and when both points have the same nearest
\* node; in these cases no Dijkstra is made and the search never starts:
\* the call is over in the step that takes its arguments.
C4_DegenerateQueryReturnsNone ==
    [][(pc = "ready" /\ pc' # "ready" /\ DegenerateQuery(start', finish')) =>
          (pc' = "done" /\ ret'.tag = "None" /\ dijkstra' = NoDijkstra)]_vars

\* two different query points with the same nearest node got None
C4_Witness ==
    /\ pc = "done" /\ ret.tag = "None"
    /\ start # finish
    /\ Nearest(start, vector, celestial_object) = Nearest(finish, vector, celestial_object)

HasSelfLoop(conns) == \E i \in 1..Len(conns) : conns[i].start = conns[i].finish

\* C5: VertexBuffer::new returns Err(DataItemIncorrect) exactly when the list
\* is empty or holds a connection with start = finish, it does so before any
\* node exists, and every other list is appended whole and yields Ok.
C5_ErrIffEmptyOrSelfLoop ==
    LET incorrect == connections = <<>> \/ HasSelfLoop(connections)
    IN /\ built = "Err_DataItemIncorrect" => (incorrect /\ vector = <<>>)
       /\ (pc # "new" /\ incorrect) => (built = "Err_DataItemIncorrect" /\ vector = <<>>)
       /\ (pc # "new" /\ ~incorrect /\ conn_pos > Len(connections)) => built = "Ok"
       /\ built = "Ok" => (~incorrect /\ conn_pos > Len(connections))

\* a list rejected for a self-loop that is not its first connection
C5_Witness ==
    /\ built = "Err_DataItemIncorrect"
    /\ Len(connections) >= 2
    /\ connections[1].start # connections[1].finish

CoordinatesOf(conns) ==
    {conns[i].start : i \in 1..Len(conns)} \cup {conns[i].finish : i \in 1..Len(conns)}

\* C6: after every append step no two nodes hold equal coordinates, and the
\* graph VertexBuffer::new returns has as many nodes as there are distinct
\* coordinates among the starts and finishes of the connection list.
C6_NodesAreDistinctCoordinates ==
    /\ \A i, j \in 1..Len(vector) :
          i # j => vector[i].coordinates # vector[j].coordinates
    /\ built = "Ok" => Len(vector) = Cardinality(CoordinatesOf(connections))

\* three connections that share points: fewer nodes than endpoints
C6_Witness ==
    /\ built = "Ok"
    /\ Len(connections) = 3
    /\ Len(vector) = 3

\* C7: after every append step the adjacency relation is symmetric: an entry
\* (j, c) at node i has an entry (i, c) at node j, also when an edge is given
\* several times or in both directions.
C7_AdjacencySymmetric ==
    \A i \in 1..Len(vector) : \A g \in 1..Len(vector[i].graphs) :
        LET rel == vector[i].graphs[g]
        IN /\ rel.vertex_index \in 1..Len(vector)
           /\ \E h \in 1..Len(vector[rel.vertex_index].graphs) :
                 /\ vector[rel.vertex_index].graphs[h].vertex_index = i
                 /\ vector[rel.vertex_index].graphs[h].cost = rel.cost

\* an edge was appended, and appended again in the other direction
C7_Witness ==
    /\ pc \in {"append", "ready"}
    /\ \E i, j \in 1..(conn_pos - 1) :
          /\ i < j
          /\ connections[i].start = connections[j].finish
          /\ connections[i].finish = connections[j].start
    /\ \E i \in 1..Len(vector) : Len(vector[i].graphs) >= 1

\* C8: a returned path is a chain: it starts at the node nearest to start,
\* ends at the node nearest to finish, and each segment starts where the
\* one before it ends.
C8_PathIsChain ==
    (ReturnedSome /\ Len(ret.path) >= 1) =>
        /\ ret.path[1].start
             = vector[Nearest(start, vector, celestial_object)].coordinates
        /\ ret.path[Len(ret.path)].finish
             = vector[Nearest(finish, vector, celestial_object)].coordinates
        /\ \A i \in 1..(Len(ret.path) - 1) : ret.path[i].finish = ret.path[i + 1].start

\* a path of three segments was returned
C8_Witness == ReturnedSome /\ Len(ret.path) = 3

\* C9: a returned path has at least one segment.
C9_PathNotEmpty == ReturnedSome => Len(ret.path) >= 1

\* a path was returned for query points that are not nodes of the graph
C9_Witness ==
    /\ ReturnedSome
    /\ \A i \in 1..Len(vector) :
          vector[i].coordinates # start /\ vector[i].coordinates # finish

Distance(point, i) ==
    cost(SphereConnection_new(point, vector[i].coordinates), get_radius_km(celestial_object))

\* node `index` is at least distance from the point, and every node before it
\* is farther away
IsFirstNearest(index, point) ==
    /\ index \in 1..Len(vector)
    /\ LET d == [j \in 1..Len(vector) |-> Distance(point, j)]
       IN \A j \in 1..Len(vector) :
             /\ d[index] <= d[j]
             /\ j < index => d[index] < d[j]

\* C10: get_closest_point returns a node at least distance from the query
\* point, the one of lowest index when several nodes are at that distance
\* (start_index and finish_index are what the two calls of it returned).
C10_ClosestIsFirstMinimum ==
    [][(pc = "ready" /\ start_index' # 0) =>
          /\ IsFirstNearest(start_index', start')
          /\ IsFirstNearest(finish_index', finish')]_vars

\* the lookup had several nodes at the least distance, the first of them not
\* being the first node of the graph
C10_Witness ==
    /\ QueryActive /\ start_index # 0
    /\ Cardinality(NearestNodes(start, vector, celestial_object)) >= 2
    /\ start_index > 1

\* C11: every node of a graph returned by VertexBuffer::new has at least one
\* adjacency entry: a node is only ever added by the append of a connection,
\* which then gives each of the two end nodes an entry for the other.
C11_EveryNodeHasNeighbour ==
    pc \notin {"new", "err"} =>
        \A i \in 1..Len(vector) : Len(vector[i].graphs) >= 1

\* a graph was returned whose last connection added two nodes at once
C11_Witness ==
    /\ built = "Ok" /\ Len(vector) = 4
    /\ Len(vector[3].graphs) = 1 /\ Len(vector[4].graphs) = 1
    /\ vector[3].graphs[1].vertex_index = 4

\* the results a call can end with when it runs by itself from state q: every
\* choice of the scan is followed; a call whose scan finds nothing while the
\* finish node is unsettled repeats that pass for ever and ends with nothing
RECURSIVE Outcomes(_, _)
Outcomes(q, vec) ==
    IF q.pc = "done" THEN {q.ret}
    ELSE IF q.pc = "panic" THEN {[tag |-> "panic", path |-> <<>>]}
    ELSE IF /\ q.pc = "select"
            /\ MinValueIndexes(q.dijkstra.costs, q.dijkstra.processed) = {}
            /\ ~InSeq(q.dijkstra.processed, q.finish_index)
         THEN {}
    ELSE UNION {Outcomes(n, vec) : n \in QuerySteps(q, vec)}

SoloResults(s, f) == Outcomes(QueryBegin(s, f, vector, celestial_object), vector)

\* C12: no step of a query changes the graph, and a step of one query leaves
\* the state of the other query as it was; so, however the steps of two
\* queries on the same graph are interleaved, each query that returns returns
\* a result that it can return when it runs alone.
C12_QueriesDoNotInterfere ==
    /\ [][/\ other' # other => UNCHANGED <<graph_vars, query_vars>>
          /\ (built = "Ok" /\ query_vars' # query_vars) => UNCHANGED <<graph_vars, other>>]_vars
    /\ [](pc = "done" => ret \in SoloResults(start, finish))
    /\ [](other.pc = "done" => other.ret \in SoloResults(other.start, other.finish))

\* two different queries, begun one after the other before either returned,
\* have both returned a path, the two paths being different
C12_Witness ==
    /\ pc = "done" /\ ret.tag = "Some"
    /\ other.pc = "done" /\ other.ret.tag = "Some"
    /\ start # other.start
    /\ ret.path # other.ret.path
    /\ Len(ret.path) >= 2 /\ Len(other.ret.path) >= 2

\* the two calls were given the same arguments and have both returned
SameQueryReturned ==
    /\ pc = "done" /\ other.pc = "done"
    /\ start = other.start /\ finish = other.finish

\* C13 (as stated): two calls of find_shortest_path with the same start, finish
\* and graph return the same result, segment for segment, whatever the order
\* in which the cost table is iterated when unsettled nodes share the least
\* cost.
C13_SameSegments == SameQueryReturned => ret = other.ret

\* C13 (amended): two calls of find_shortest_path with the same start, finish
\* and graph both return None or both return a path; the two paths have the
\* same total cost, begin at the same node and end at the same node, but need
\* not have the same segments.
C13_SameCostAndEnds ==
    SameQueryReturned =>
        /\ ret.tag = other.ret.tag
        /\ PathCost(ret.path, get_radius_km(celestial_object))
              = PathCost(other.ret.path, get_radius_km(celestial_object))
        /\ ret.tag = "Some" =>
              /\ ret.path # <<>> /\ other.ret.path # <<>>
              /\ ret.path[1].start = other.ret.path[1].start
              /\ ret.path[Len(ret.path)].finish
                    = other.ret.path[Len(other.ret.path)].finish

\* two calls with the same arguments returned paths through different nodes
C13_Witness ==
    /\ SameQueryReturned
    /\ ret.tag = "Some" /\ other.ret.tag = "Some"
    /\ ret.path # other.ret.path

\* C14: in every state of the search, every settled node other than the start
\* node has a recorded predecessor that is an index of a node of the graph, so
\* the walk back from the finish node never comes to a missing link (the
\* unwrap of calculate_path never panics).
C14_SettledHasPredecessor ==
    /\ pc # "panic"
    /\ dijkstra # NoDijkstra =>
          \A k \in 1..Len(dijkstra.processed) :
             LET n == dijkstra.processed[k]
             IN n # start_index =>
                   /\ n \in DOMAIN dijkstra.parents
                   /\ dijkstra.parents[n] \in 1..Len(vector)

\* the walk is under way after a search that settled the start node, a node
\* between and the finish node, the finish node having had no predecessor at first
C14_Witness ==
    /\ pc = "walk"
    /\ Len(dijkstra.processed) >= 3
    /\ Len(walk.result) >= 1
    /\ dijkstra.parents[finish_index] # start_index

\* C15: at the moment a node is settled (pushed to processed) its recorded cost
\* is the least total cost over all paths from the start node to it; the cost
\* and the predecessor of a settled node do not change afterwards; and nodes
\* are settled in order of non-decreasing cost.
C15_SettledCostIsFinal ==
    [][dijkstra' # NoDijkstra =>
          LET old == dijkstra.processed
              new == dijkstra'.processed
          IN \A k \in 1..Len(new) :
                LET n == new[k]
                IN IF k > Len(old)
                   THEN /\ n \in DOMAIN dijkstra'.costs
                        /\ dijkstra'.costs[n] = LeastCost(vector, start_index', n)
                        /\ k > 1 => dijkstra'.costs[n] >= dijkstra'.costs[new[k - 1]]
                   ELSE /\ old[k] = n
                        /\ dijkstra'.costs[n] = dijkstra.costs[n]
                        /\ (n \in DOMAIN dijkstra'.parents) = (n \in DOMAIN dijkstra.parents)
                        /\ n \in DOMAIN dijkstra.parents =>
                              dijkstra'.parents[n] = dijkstra.parents[n]]_vars

\* four nodes were settled, the second and the third at the same cost, the
\* fourth at a higher cost
C15_Witness ==
    /\ InSearchLoop \/ pc = "walk"
    /\ Len(dijkstra.processed) = 4
    /\ dijkstra.costs[dijkstra.processed[2]] = dijkstra.costs[dijkstra.processed[3]]
    /\ dijkstra.costs[dijkstra.processed[4]] > dijkstra.costs[dijkstra.processed[3]]

IsNeighbour(vec, u, v) == PositionOfRelation(vec[u].graphs, v) # 0

EdgeCost(vec, u, v) == vec[u].graphs[PositionOfRelation(vec[u].graphs, v)].cost

\* the cost or the predecessor recorded for node n differs between d and e
RecordChanged(d, e, n) ==
    \/ (n \in DOMAIN d.costs) # (n \in DOMAIN e.costs)
    \/ (n \in DOMAIN d.parents) # (n \in DOMAIN e.parents)
    \/ n \in DOMAIN d.costs /\ n \in DOMAIN e.costs /\ d.costs[n] # e.costs[n]
    \/ n \in DOMAIN d.parents /\ n \in DOMAIN e.parents /\ d.parents[n] # e.parents[n]

\* C16: a relax step changes the cost or the predecessor recorded for a node n
\* only when n is a neighbour of the node being relaxed, n is unsettled, and n
\* has no recorded cost or the candidate cost is strictly lower than the
\* recorded one; it then sets the cost to the candidate and the predecessor to
\* the relaxed node, both together.  So a recorded cost never increases, and
\* the cost of every node with a predecessor is the cost of the predecessor
\* plus the cost of the edge between them.
C16_RelaxStep ==
    [][(dijkstra # NoDijkstra /\ dijkstra' # NoDijkstra) =>
          LET u == dijkstra.cheapest_vertex_index
          IN \A n \in 1..Len(vector) :
                /\ RecordChanged(dijkstra, dijkstra', n) =>
                      /\ pc = "relax"
                      /\ IsNeighbour(vector, u, n)
                      /\ ~InSeq(dijkstra.processed, n)
                      /\ \/ n \notin DOMAIN dijkstra.costs
                         \/ dijkstra.costs[u] + EdgeCost(vector, u, n) < dijkstra.costs[n]
                      /\ n \in DOMAIN dijkstra'.costs /\ n \in DOMAIN dijkstra'.parents
                      /\ dijkstra'.costs[n] = dijkstra.costs[u] + EdgeCost(vector, u, n)
                      /\ dijkstra'.parents[n] = u
                /\ (n \in DOMAIN dijkstra.costs) =>
                      /\ n \in DOMAIN dijkstra'.costs
                      /\ dijkstra'.costs[n] <= dijkstra.costs[n]
                /\ (n \in DOMAIN dijkstra'.parents /\ dijkstra'.parents[n] # 0) =>
                      LET parent == dijkstra'.parents[n]
                      IN /\ IsNeighbour(vector, parent, n)
                         /\ dijkstra'.costs[n]
                               = dijkstra'.costs[parent] + EdgeCost(vector, parent, n)]_vars

\* the cost MAX recorded for the finish node has been replaced by a relax
\* step, and the relax step that has just run left alone an unsettled
\* neighbour whose recorded cost the candidate did not beat
C16_Witness ==
    /\ pc = "select"
    /\ dijkstra.parents[finish_index] # 0
    /\ \E n \in DOMAIN dijkstra.costs :
          /\ IsNeighbour(vector, dijkstra.cheapest_vertex_index, n)
          /\ ~InSeq(dijkstra.processed, n)
          /\ dijkstra.costs[n] < MAX
          /\ dijkstra.parents[n] # dijkstra.cheapest_vertex_index

\* C17 (as stated): in the initial search state the cost table has exactly one
\* entry, the start index with cost 0, the predecessor table is empty, and the
\* settled list is exactly the start index.
C17_OnlyStartSeeded ==
    [][(dijkstra = NoDijkstra /\ dijkstra' # NoDijkstra) =>
          /\ DOMAIN dijkstra'.costs = {start_index'}
          /\ dijkstra'.costs[start_index'] = 0
          /\ DOMAIN dijkstra'.parents = {}
          /\ dijkstra'.processed = <<start_index'>>]_vars

\* C17 (amended): in the initial search state the cost table has exactly two
\* entries, the start index with cost 0 and the finish index with cost MAX;
\* the predecessor table has exactly one entry, the finish index with no
\* predecessor (None); the settled list is exactly the start index, which is
\* also the node to relax first.
C17_StartAndFinishSeeded ==
    [][(dijkstra = NoDijkstra /\ dijkstra' # NoDijkstra) =>
          /\ start_index' # finish_index'
          /\ DOMAIN dijkstra'.costs = {start_index', finish_index'}
          /\ dijkstra'.costs[start_index'] = 0
          /\ dijkstra'.costs[finish_index'] = MAX
          /\ DOMAIN dijkstra'.parents = {finish_index'}
          /\ dijkstra'.parents[finish_index'] = 0
          /\ dijkstra'.processed = <<start_index'>>
          /\ dijkstra'.cheapest_vertex_index = start_index']_vars

\* a search is in its initial state, no relax step taken yet, on a graph of
\* more than two nodes
C17_Witness ==
    /\ pc = "relax"
    /\ dijkstra.processed = <<start_index>>
    /\ Cardinality(DOMAIN dijkstra.costs) = 2
    /\ dijkstra.costs[finish_index] = MAX
    /\ Len(vector) >= 3

\* the vector VertexBuffer::new ends with: append applied to conns[i], ...
RECURSIVE AppendAll(_, _, _, _)
AppendAll(vec, conns, i, body) ==
    IF i > Len(conns) THEN vec
    ELSE AppendAll(append(vec, conns[i], body), conns, i + 1, body)

InsertAt(seq, p, x) == SubSeq(seq, 1, p - 1) \o <<x>> \o SubSeq(seq, p, Len(seq))

\* C18: putting an edge in again changes nothing.  No adjacency list ever has
\* two entries for the same neighbour index; and the graph built from a list
\* of connections has the same nodes and the same adjacency entries (in the
\* same order, with the same costs) as the graph built from that list with
\* any of its connections repeated at any later place, as it is or reversed.
C18_ReinsertIsIdempotent ==
    [][vector' # vector =>
          /\ \A n \in 1..Len(vector') : \A i, j \in 1..Len(vector'[n].graphs) :
                vector'[n].graphs[i].vertex_index = vector'[n].graphs[j].vertex_index
                   => i = j
          /\ built' = "Ok" =>
                \A i \in 1..Len(connections) : \A p \in (i + 1)..(Len(connections) + 1) :
                   \A c \in {connections[i],
                             SphereConnection_new(connections[i].finish, connections[i].start)} :
                      AppendAll(<<>>, InsertAt(connections, p, c), 1, celestial_object)
                         = vector']_vars

\* a graph was returned for a list that has a connection, other connections,
\* and then the first connection again, reversed
C18_Witness ==
    /\ built = "Ok" /\ Len(connections) = 3
    /\ connections[3].start = connections[1].finish
    /\ connections[3].finish = connections[1].start
    /\ connections[2].start # connections[1].start
    /\ Len(vector) = 3

\* C19: after every append step, the neighbour index of every adjacency entry
\* is a position of the node vector, and no node has an entry for itself.
C19_NeighbourIndexesValid ==
    \A n \in 1..Len(vector) : \A g \in 1..Len(vector[n].graphs) :
        /\ vector[n].graphs[g].vertex_index \in 1..Len(vector)
        /\ vector[n].graphs[g].vertex_index # n

\* the appends are under way: the last one added a node to a node that had
\* entries already, and a connection is still to come
C19_Witness ==
    /\ pc = "append" /\ conn_pos = 3
    /\ Len(vector) = 3
    /\ Len(vector[1].graphs) = 2
    /\ vector[1].graphs[2].vertex_index = 3

\* the segment is one of the connections the graph was built from, in the
\* direction given or the other
IsInputConnection(segment) ==
    \E k \in 1..Len(connections) :
        \/ connections[k] = segment
        \/ SphereConnection_new(connections[k].finish, connections[k].start) = segment

\* C20: whenever find_shortest_path returns Some(path), every segment of path
\* joins two nodes that are adjacent in the graph: its ends are the
\* coordinates of two nodes with adjacency entries for each other, and it is
\* one of the input connections up to direction.
C20_SegmentsAreEdges ==
    ReturnedSome =>
        \A i \in 1..Len(ret.path) :
            LET u == PositionOfPoint(vector, ret.path[i].start)
                v == PositionOfPoint(vector, ret.path[i].finish)
            IN /\ u # 0 /\ v # 0
               /\ IsNeighbour(vector, u, v) /\ IsNeighbour(vector, v, u)
               /\ IsInputConnection(ret.path[i])

\* a path of two segments was returned, each of them an input connection
\* walked against the direction it was given in
C20_Witness ==
    /\ ReturnedSome /\ Len(ret.path) = 2
    /\ \A i \in 1..2 : \A k \in 1..Len(connections) : connections[k] # ret.path[i]

\* the walk of calculate_path is under way or over
FinishSettled == pc \in {"walk", "done"} /\ dijkstra # NoDijkstra

\* C21: once the finish node is settled the predecessor links form no cycle:
\* the predecessor of every settled node but the start node was settled
\* before it.  So the walk back from the finish node comes to each node at
\* most once and has at most (node count - 1) segments at any time; every
\* pass of its loop either adds one segment, the next link being there, or
\* is the last, so calculate_path returns after at most (node count - 1)
\* passes, with a path of at most (node count - 1) segments.
C21_WalkTerminates ==
    /\ [](dijkstra # NoDijkstra =>
             \A k \in 2..Len(dijkstra.processed) :
                \E j \in 1..(k - 1) :
                   dijkstra.parents[dijkstra.processed[k]] = dijkstra.processed[j])
    /\ [](FinishSettled =>
             /\ Len(walk.result) <= Len(vector) - 1
             /\ \A i, j \in 1..Len(walk.result) :
                   walk.result[i].finish = walk.result[j].finish => i = j
             /\ \A i \in 1..Len(walk.result) :
                   walk.result[i].finish # walk.current_end_point)
    /\ [](ReturnedSome => Len(ret.path) <= Len(vector) - 1)
    /\ [][pc = "walk" =>
             \/ /\ walk.actual_index_from_parent = start_index
                /\ pc' = "done" /\ ret'.tag = "Some"
             \/ /\ walk.actual_index_from_parent # start_index
                /\ pc' = "walk"
                /\ Len(walk'.result) = Len(walk.result) + 1]_vars

\* a walk over every node of a graph of four nodes has returned
C21_Witness ==
    /\ ReturnedSome
    /\ Len(vector) = 4
    /\ Len(ret.path) = Len(vector) - 1
    /\ walk.actual_index_from_parent = start_index

\* the end points of the connections, in the order of the list, start before
\* finish
RECURSIVE EndPoints(_)
EndPoints(conns) ==
    IF conns = <<>> THEN <<>>
    ELSE <<Head(conns).start, Head(conns).finish>> \o EndPoints(Tail(conns))

\* the points of a sequence in order of first appearance
RECURSIVE FirstAppearances(_, _)
FirstAppearances(points, seen) ==
    IF points = <<>> THEN seen
    ELSE FirstAppearances(Tail(points),
                          IF \E i \in 1..Len(seen) : seen[i] = Head(points)
                          THEN seen ELSE Append(seen, Head(points)))

IsPrefix(s, t) == Len(s) <= Len(t) /\ SubSeq(t, 1, Len(s)) = s

\* C22: while the graph is built a node keeps its index and its coordinates:
\* a step that changes the vector leaves every node it had at its position
\* with its coordinates, adds adjacency entries only at the end of the lists
\* that were there, and adds nodes only at the end of the vector; and the
\* nodes are numbered in the order of first appearance of their coordinates
\* in the connections appended so far, start before finish within a connection.
C22_NodesKeepTheirIndex ==
    [][vector' # vector =>
          /\ pc = "append"
          /\ Len(vector') >= Len(vector)
          /\ \A n \in 1..Len(vector) :
                /\ vector'[n].coordinates = vector[n].coordinates
                /\ IsPrefix(vector[n].graphs, vector'[n].graphs)
          /\ [n \in 1..Len(vector') |-> vector'[n].coordinates]
                = FirstAppearances(EndPoints(SubSeq(connections, 1, conn_pos)), <<>>)]_vars

\* a graph was returned whose second connection began at a new node and ended
\* at the first node, and whose third connection ended at a new node
C22_Witness ==
    /\ built = "Ok" /\ Len(connections) = 3 /\ Len(vector) = 4
    /\ connections[2].finish = vector[1].coordinates
    /\ connections[2].start = vector[3].coordinates
    /\ connections[3].finish = vector[4].coordinates
    /\ Len(vector[1].graphs) = 2
====
